---------------------------- MODULE Spec2Model ----------------------------
(***************************************************************************)
(* Booking service of the event platform: bookingService (getBooking,      *)
(* postBooking, putBooking, validateEnrollment, validTicket, verifyRoom)   *)
(* over bookingRepository (prisma).  Every request is an async function;   *)
(* one step of the model is one awaited persistence call together with     *)
(* the synchronous code that follows it up to the next await (or up to     *)
(* the return / throw).  The Booking columns createdAt / updatedAt are     *)
(* not modelled: no decision of the service reads them.                    *)
(***************************************************************************)
EXTENDS Integers, FiniteSets, Sequences, TLC

(* ------------------------------ bounds -------------------------------- *)
NumUsers == 2
NumRooms == 2
MaxCapacity == 2
NumProcs == 2
MaxBookings == 3
MaxRequests == 3

Users == 1..NumUsers
Rooms == 1..NumRooms
\* room ids a request can carry: 0 is an id for which no Room exists
RoomIds == 0..NumRooms
Procs == 1..NumProcs

(* ------------------------------ records ------------------------------- *)
\* null results of prisma findFirst
NoBooking == [id |-> 0, userId |-> 0, roomId |-> 0]
NoRoom == [id |-> 0, capacity |-> 0]
NoTicket == [status |-> "NONE", isRemote |-> FALSE, includesHotel |-> FALSE]
NoReq == [op |-> "none", userId |-> 0, roomId |-> 0, bookingId |-> 0]
NoResult == [status |-> "none", booking |-> NoBooking]

TicketStatus == {"RESERVED", "PAID"}
Tickets == [status : TicketStatus, isRemote : BOOLEAN, includesHotel : BOOLEAN]

VARIABLES
    bookings,     \* table Booking: set of [id, userId, roomId]
    nextId,       \* autoincrement of Booking.id
    capacity,     \* table Room: capacity of each room
    enrollment,   \* enrollment[u]: user u has an Enrollment
    ticket,       \* ticket[u]: the Ticket (with its TicketType) of u's Enrollment, or NoTicket
    pc,           \* pc[p]: position of request p
    req,          \* req[p]: operation and arguments of request p
    room,         \* room[p]: the room verifyRoom found
    result,       \* result[p]: value returned / error thrown by request p
    snap,         \* snap[p]: table Booking when request p started (history)
    writes,       \* writes[p]: number of writes request p has performed (history)
    prev,         \* the Booking returned by the last answered request when that request
                  \* was a successful postBooking, else NoBooking (history)
    started,      \* number of requests started while interleaving is allowed (history)
    created       \* users for whom a postBooking has succeeded (history)

vars == <<bookings, nextId, capacity, enrollment, ticket, pc, req, room, result, snap, writes,
          prev, started, created>>
db == <<capacity, enrollment, ticket>>

(* ------------------------- bookingRepository -------------------------- *)
\* faulty variant: the filter compares the row id with the user id
bookingRepository_getBooking_byId(bks, userId) ==
    IF \E b \in bks : b.id = userId
    THEN {b \in bks : b.id = userId}
    ELSE {NoBooking}

\* prisma.booking.findFirst({where: {userId}}): any matching row, or null
bookingRepository_getBooking(bks, userId) ==
    IF \E b \in bks : b.userId = userId
    THEN {b \in bks : b.userId = userId}
    ELSE {NoBooking}

\* faulty variant: an upsert keyed by the user, an earlier row of the user is replaced
bookingRepository_postBooking_upsert(bks, id, userId, roomId) ==
    {b \in bks : b.userId # userId} \cup {[id |-> id, userId |-> userId, roomId |-> roomId]}

\* faulty variant: the two columns are swapped in the data
bookingRepository_postBooking_swapped(bks, id, userId, roomId) ==
    bks \cup {[id |-> id, userId |-> roomId, roomId |-> userId]}

\* prisma.booking.create({data: {userId, roomId}})
bookingRepository_postBooking(bks, id, userId, roomId) ==
    bks \cup {[id |-> id, userId |-> userId, roomId |-> roomId]}

\* faulty variant: a missing room is answered with a default room instead of null
bookingRepository_findRoom_neverNull(cap, roomId) ==
    IF roomId \in DOMAIN cap THEN [id |-> roomId, capacity |-> cap[roomId]]
    ELSE [id |-> roomId, capacity |-> 1]

\* prisma.room.findFirst({where: {id: roomId}})
bookingRepository_findRoom(cap, roomId) ==
    IF roomId \in DOMAIN cap THEN [id |-> roomId, capacity |-> cap[roomId]] ELSE NoRoom

\* faulty variant: a missing id is answered with the first row instead of null
bookingRepository_findBooking_anyRow(bks, bookingId) ==
    IF \E b \in bks : b.id = bookingId
    THEN CHOOSE b \in bks : b.id = bookingId
    ELSE IF bks # {} THEN CHOOSE b \in bks : \A c \in bks : b.id <= c.id
    ELSE NoBooking

\* prisma.booking.findFirst({where: {id: bookingId}})
bookingRepository_findBooking(bks, bookingId) ==
    IF \E b \in bks : b.id = bookingId
    THEN CHOOSE b \in bks : b.id = bookingId
    ELSE NoBooking

\* prisma.booking.count({where: {roomId}})
bookingRepository_countBookingRoom(bks, roomId) ==
    Cardinality({b \in bks : b.roomId = roomId})

\* faulty variant: the where clause is missing, every row is updated
bookingRepository_updateBooking_all(bks, bookingId, roomId) ==
    {[b EXCEPT !.roomId = roomId] : b \in bks}

\* faulty variant: the where clause selects the row by the room id
bookingRepository_updateBooking_byRoomId(bks, bookingId, roomId) ==
    {IF b.id = roomId THEN [b EXCEPT !.roomId = roomId] ELSE b : b \in bks}

\* prisma.booking.update({where: {id: bookingId}, data: {roomId}})
bookingRepository_updateBooking(bks, bookingId, roomId) ==
    {IF b.id = bookingId THEN [b EXCEPT !.roomId = roomId] ELSE b : b \in bks}

(* --------------------- conditions of bookingService ------------------- *)
\* faulty variant: off by one, a room at capacity is still accepted
RoomIsFull_strict(bookingRoom, r) == bookingRoom > r.capacity

\* verifyRoom: if (bookingRoom >= room.capacity) throw cannotBookingError()
RoomIsFull(bookingRoom, r) == bookingRoom >= r.capacity

\* faulty variant: the remote flag is not looked at
TicketRejected_remoteIgnored(t) ==
    \/ t = NoTicket
    \/ t.status = "RESERVED"
    \/ ~t.includesHotel

\* validTicket: if (!ticket || status === "RESERVED" || isRemote || !includesHotel)
TicketRejected(t) ==
    \/ t = NoTicket
    \/ t.status = "RESERVED"
    \/ t.isRemote
    \/ ~t.includesHotel

\* faulty variant: the duplicate check is missing
AlreadyBooked_unchecked(userBooking) == FALSE

\* postBooking: if (userBooking) throw cannotBookingError()
AlreadyBooked(userBooking) == userBooking # NoBooking

\* faulty variant: the owner is not compared
PutRejected_anyUser(userId, roomId, booking) == roomId = booking.roomId

\* faulty variant: the target room is not compared with the current one
PutRejected_sameRoomAllowed(userId, roomId, booking) == userId # booking.userId

\* faulty variant: the update checks the caller's ticket as the creation does
PutRejected_ticketChecked(userId, roomId, booking) ==
    \/ userId # booking.userId \/ roomId = booking.roomId
    \/ ~enrollment[userId] \/ TicketRejected(ticket[userId])

\* putBooking: if (userId !== booking.userId || roomId === booking.roomId)
PutRejected(userId, roomId, booking) ==
    userId # booking.userId \/ roomId = booking.roomId

(* ------------------------------- Init --------------------------------- *)
Init ==
    /\ bookings = {}
    /\ nextId = 1
    /\ capacity \in [Rooms -> 1..MaxCapacity]
    \* rooms are interchangeable: they are numbered by non-decreasing capacity
    /\ \A r1 \in Rooms, r2 \in Rooms : r1 < r2 => capacity[r1] <= capacity[r2]
    /\ enrollment \in [Users -> BOOLEAN]
    /\ ticket \in [Users -> Tickets \cup {NoTicket}]
    /\ \A u \in Users : ~enrollment[u] => ticket[u] = NoTicket
    /\ pc = [p \in Procs |-> "idle"]
    /\ req = [p \in Procs |-> NoReq]
    /\ room = [p \in Procs |-> NoRoom]
    /\ result = [p \in Procs |-> NoResult]
    /\ snap = [p \in Procs |-> {}]
    /\ writes = [p \in Procs |-> 0]
    /\ prev = NoBooking
    /\ started = 0
    /\ created = {}

(* ------------------------------ helpers ------------------------------- *)
Throw(p, err) ==
    /\ pc' = [pc EXCEPT ![p] = "done"]
    /\ result' = [result EXCEPT ![p] = [status |-> err, booking |-> NoBooking]]

Return(p, b) ==
    /\ pc' = [pc EXCEPT ![p] = "done"]
    /\ result' = [result EXCEPT ![p] = [status |-> "OK", booking |-> b]]

Goto(p, label) ==
    /\ pc' = [pc EXCEPT ![p] = label]
    /\ UNCHANGED result

\* number of postBooking requests that have started and not yet inserted
PendingPosts == Cardinality({q \in Procs : req[q].op = "post" /\ pc[q] \notin {"idle", "done"}})

(* --------------------------- request arrival -------------------------- *)
\* the router hands an authenticated request to the service
Begin(p, r, label) ==
    /\ pc[p] = "idle"
    /\ \A q \in Procs : q < p => pc[q] # "idle"
    /\ req' = [req EXCEPT ![p] = r]
    /\ pc' = [pc EXCEPT ![p] = label]
    /\ snap' = [snap EXCEPT ![p] = bookings]
    /\ writes' = [writes EXCEPT ![p] = 0]
    /\ room' = [room EXCEPT ![p] = NoRoom]
    /\ result' = [result EXCEPT ![p] = NoResult]
    /\ UNCHANGED <<bookings, nextId, db, prev, created>>

CallGetBooking(p) ==
    \E u \in Users :
        Begin(p, [op |-> "get", userId |-> u, roomId |-> 0, bookingId |-> 0], "getBooking")

CallPostBooking(p) ==
    /\ nextId + PendingPosts <= MaxBookings
    /\ \E u \in Users, r \in RoomIds :
        Begin(p, [op |-> "post", userId |-> u, roomId |-> r, bookingId |-> 0], "findRoom")

CallPutBooking(p) ==
    \* booking ids a request can carry: the ids handed out so far and the next one,
    \* for which no Booking exists
    \E u \in Users, b \in 1..nextId, r \in RoomIds :
        Begin(p, [op |-> "put", userId |-> u, roomId |-> r, bookingId |-> b], "findBooking")

(* ----------------------------- getBooking ----------------------------- *)
getBooking(p) ==
    /\ pc[p] = "getBooking"
    /\ \E booking \in bookingRepository_getBooking(bookings, req[p].userId) :
        IF booking = NoBooking THEN Throw(p, "NotFound") ELSE Return(p, booking)
    /\ UNCHANGED <<bookings, nextId, db, req, room, snap, writes, prev, started, created>>

(* ----------------------------- verifyRoom ----------------------------- *)
verifyRoom_findRoom(p) ==
    /\ pc[p] = "findRoom"
    /\ LET r == bookingRepository_findRoom(capacity, req[p].roomId) IN
        /\ room' = [room EXCEPT ![p] = r]
        /\ IF r = NoRoom THEN Throw(p, "NotFound") ELSE Goto(p, "countBookingRoom")
    /\ UNCHANGED <<bookings, nextId, db, req, snap, writes, prev, started, created>>

verifyRoom_countBookingRoom(p) ==
    /\ pc[p] = "countBookingRoom"
    /\ LET bookingRoom == bookingRepository_countBookingRoom(bookings, req[p].roomId) IN
        IF RoomIsFull(bookingRoom, room[p])
        THEN Throw(p, "Conflict")
        ELSE Goto(p, IF req[p].op = "post" THEN "validateEnrollment" ELSE "updateBooking")
    /\ UNCHANGED <<bookings, nextId, db, req, room, snap, writes, prev, started, created>>

(* ----------------------------- validTicket ---------------------------- *)
validateEnrollment(p) ==
    /\ pc[p] = "validateEnrollment"
    /\ IF ~enrollment[req[p].userId] THEN Throw(p, "Conflict") ELSE Goto(p, "validTicket")
    /\ UNCHANGED <<bookings, nextId, db, req, room, snap, writes, prev, started, created>>

validTicket(p) ==
    /\ pc[p] = "validTicket"
    /\ IF TicketRejected(ticket[req[p].userId])
       THEN Throw(p, "Conflict")
       ELSE Goto(p, "userBooking")
    /\ UNCHANGED <<bookings, nextId, db, req, room, snap, writes, prev, started, created>>

(* ----------------------------- postBooking ---------------------------- *)
postBooking_getBooking(p) ==
    /\ pc[p] = "userBooking"
    /\ \E userBooking \in bookingRepository_getBooking(bookings, req[p].userId) :
        IF AlreadyBooked(userBooking) THEN Throw(p, "Conflict") ELSE Goto(p, "postBooking")
    /\ UNCHANGED <<bookings, nextId, db, req, room, snap, writes, prev, started, created>>

postBooking_create(p) ==
    /\ pc[p] = "postBooking"
    /\ bookings' = bookingRepository_postBooking(bookings, nextId, req[p].userId, req[p].roomId)
    /\ nextId' = nextId + 1
    /\ writes' = [writes EXCEPT ![p] = @ + 1]
    /\ Return(p, [id |-> nextId, userId |-> req[p].userId, roomId |-> req[p].roomId])
    /\ created' = created \cup {req[p].userId}
    /\ UNCHANGED <<db, req, room, snap, prev, started>>

(* ----------------------------- putBooking ----------------------------- *)
putBooking_findBooking(p) ==
    /\ pc[p] = "findBooking"
    /\ LET booking == bookingRepository_findBooking(bookings, req[p].bookingId) IN
        IF booking = NoBooking THEN Throw(p, "NotFound")
        ELSE IF PutRejected(req[p].userId, req[p].roomId, booking) THEN Throw(p, "Conflict")
        ELSE Goto(p, "findRoom")
    /\ UNCHANGED <<bookings, nextId, db, req, room, snap, writes, prev, started, created>>

putBooking_update(p) ==
    /\ pc[p] = "updateBooking"
    /\ bookings' = bookingRepository_updateBooking(bookings, req[p].bookingId, req[p].roomId)
    /\ writes' = [writes EXCEPT ![p] = @ + 1]
    /\ Return(p, bookingRepository_findBooking(bookings', req[p].bookingId))
    /\ UNCHANGED <<nextId, db, req, room, snap, prev, started, created>>

(* ------------------------------ response ------------------------------ *)
\* the controller sends the response; the request is over
Respond(p) ==
    /\ pc[p] = "done"
    /\ UNCHANGED started
    /\ prev' = IF req[p].op = "post" /\ result[p].status = "OK" THEN result[p].booking
                ELSE NoBooking
    /\ pc' = [pc EXCEPT ![p] = "idle"]
    /\ req' = [req EXCEPT ![p] = NoReq]
    /\ room' = [room EXCEPT ![p] = NoRoom]
    /\ result' = [result EXCEPT ![p] = NoResult]
    /\ snap' = [snap EXCEPT ![p] = {}]
    /\ writes' = [writes EXCEPT ![p] = 0]
    /\ UNCHANGED <<bookings, nextId, db, created>>

Step(p) ==
    \/ getBooking(p)
    \/ verifyRoom_findRoom(p)
    \/ verifyRoom_countBookingRoom(p)
    \/ validateEnrollment(p)
    \/ validTicket(p)
    \/ postBooking_getBooking(p)
    \/ postBooking_create(p)
    \/ putBooking_findBooking(p)
    \/ putBooking_update(p)
    \/ Respond(p)

Call(p) ==
    \/ CallGetBooking(p)
    \/ CallPostBooking(p)
    \/ CallPutBooking(p)

AllIdle == \A q \in Procs : pc[q] = "idle"

\* requests executed one at a time: a request starts only when none is in flight
Next ==
    \E p \in Procs :
        \/ AllIdle /\ Call(p) /\ UNCHANGED started
        \/ Step(p)

Spec == Init /\ [][Next]_vars

\* requests interleaved at the granularity of persistence calls
NextConc ==
    \E p \in Procs :
        \/ started < MaxRequests /\ Call(p) /\ started' = started + 1
        \/ Step(p)

\* the interleaving analysis starts from stores in which every user is enrolled with an
\* in-person ticket that includes the hotel, paid or not
InitConc ==
    /\ Init
    /\ \A u \in Users : enrollment[u] /\ ticket[u] # NoTicket
                        /\ ~ticket[u].isRemote /\ ticket[u].includesHotel

SpecConc == InitConc /\ [][NextConc]_vars

\* requests executed one at a time on a store in which one Booking has been made for a
\* user whatever the user's enrollment and ticket, as the tests of PUT /booking seed it
\* (users are interchangeable: the Booking is made for user 1)
InitSeeded ==
    /\ \E r \in Rooms : bookings = {[id |-> 1, userId |-> 1, roomId |-> r]}
    /\ nextId = 2
    /\ capacity \in [Rooms -> 1..MaxCapacity]
    /\ \A r1 \in Rooms, r2 \in Rooms : r1 < r2 => capacity[r1] <= capacity[r2]
    /\ enrollment \in [Users -> BOOLEAN]
    /\ ticket \in [Users -> Tickets \cup {NoTicket}]
    /\ \A u \in Users : ~enrollment[u] => ticket[u] = NoTicket
    /\ pc = [p \in Procs |-> "idle"]
    /\ req = [p \in Procs |-> NoReq]
    /\ room = [p \in Procs |-> NoRoom]
    /\ result = [p \in Procs |-> NoResult]
    /\ snap = [p \in Procs |-> {}]
    /\ writes = [p \in Procs |-> 0]
    /\ prev = NoBooking
    /\ started = 0
    /\ created = {}

SpecSeeded == InitSeeded /\ [][Next]_vars

TypeOK ==
    /\ nextId \in 1..(MaxBookings + 1)
    /\ \A b \in bookings : b.id \in 1..(nextId - 1) /\ b.userId \in Users /\ b.roomId \in Rooms
    /\ \A p \in Procs : pc[p] \in {"idle", "done", "getBooking", "findRoom", "countBookingRoom",
                                   "validateEnrollment", "validTicket", "userBooking",
                                   "postBooking", "findBooking", "updateBooking"}


(* ======================= properties of the service ==================== *)
\* occupancy of room r in a Booking table
Occupancy(bks, r) == Cardinality({b \in bks : b.roomId = r})
BookingsOf(bks, u) == {b \in bks : b.userId = u}
\* the five eligibility conditions of a user
Eligible(u) ==
    /\ enrollment[u]
    /\ ticket[u] # NoTicket
    /\ ticket[u].status # "RESERVED"
    /\ ticket[u].isRemote = FALSE
    /\ ticket[u].includesHotel = TRUE
Done(p, op) == pc[p] = "done" /\ req[p].op = op
Failed(p) == result[p].status \in {"NotFound", "Conflict"}

\* C1: when requests run one at a time from an empty store, every user has at most
\* one Booking in every reachable state.
C1_AtMostOneBookingPerUser ==
    \A b1 \in bookings, b2 \in bookings : b1.userId = b2.userId => b1 = b2

\* a booked, eligible user asked again for a room with a free place and was refused
C1_Witness ==
    \E p \in Procs :
        /\ Done(p, "post") /\ result[p].status = "Conflict"
        /\ req[p].roomId \in Rooms
        /\ Occupancy(snap[p], req[p].roomId) < capacity[req[p].roomId]
        /\ Eligible(req[p].userId)
        /\ BookingsOf(bookings, req[p].userId) # {}

\* C2: when requests interleave at the granularity of persistence calls, no user
\* ever has more than one Booking.
C2_AtMostOneBookingPerUserInterleaved ==
    \A u \in Users : Cardinality(BookingsOf(bookings, u)) <= 1

\* C3: capacity decision.  (i) postBooking(u, r) of an eligible user without Booking for
\* an existing room r succeeds when occupancy(r) < capacity(r) and fails with Conflict
\* when occupancy(r) >= capacity(r); (ii) so does putBooking(u, b, r) of the owner of b
\* for an existing room r other than b's room.
C3_CapacityDecision ==
    \A p \in Procs :
        LET u == req[p].userId
            r == req[p].roomId
            decided == IF Occupancy(snap[p], r) < capacity[r] THEN "OK" ELSE "Conflict"
        IN  /\ ( /\ Done(p, "post") /\ r \in Rooms
                 /\ Eligible(u) /\ BookingsOf(snap[p], u) = {} )
               => result[p].status = decided
            /\ ( /\ Done(p, "put") /\ r \in Rooms
                 /\ \E b \in snap[p] : b.id = req[p].bookingId /\ b.userId = u /\ b.roomId # r )
               => result[p].status = decided

\* an eligible user without Booking was refused a room that others had filled
C3_Witness ==
    \E p \in Procs :
        /\ Done(p, "post") /\ req[p].roomId \in Rooms
        /\ Eligible(req[p].userId) /\ BookingsOf(snap[p], req[p].userId) = {}
        /\ Occupancy(snap[p], req[p].roomId) >= capacity[req[p].roomId]
        /\ result[p].status = "Conflict"

\* C4: postBooking(u, r) for an existing room with a free place and a user without
\* Booking succeeds exactly when u has an Enrollment with a Ticket that is not RESERVED,
\* not remote and includes the hotel; otherwise it fails with Conflict and no Booking
\* is created.
C4_EligibilityConjunction ==
    \A p \in Procs :
        LET u == req[p].userId
            r == req[p].roomId
        IN  ( /\ Done(p, "post") /\ r \in Rooms
              /\ Occupancy(snap[p], r) < capacity[r]
              /\ BookingsOf(snap[p], u) = {} )
            => /\ result[p].status = "OK" <=> Eligible(u)
               /\ ~Eligible(u) => result[p].status = "Conflict" /\ bookings = snap[p]

\* a user whose paid ticket includes the hotel but is remote was refused
C4_Witness ==
    \E p \in Procs :
        LET u == req[p].userId
            r == req[p].roomId
        IN  /\ Done(p, "post") /\ r \in Rooms
            /\ Occupancy(snap[p], r) < capacity[r]
            /\ BookingsOf(snap[p], u) = {}
            /\ enrollment[u] /\ ticket[u] # NoTicket
            /\ ticket[u].status = "PAID" /\ ticket[u].isRemote /\ ticket[u].includesHotel
            /\ result[p].status = "Conflict"

\* C5 as stated: once postBooking has succeeded for u, every later postBooking of u
\* fails with Conflict and adds no Booking, whatever room id it carries.
C5_DuplicateAlwaysConflict ==
    \A p \in Procs :
        (Done(p, "post") /\ req[p].userId \in created /\ BookingsOf(snap[p], req[p].userId) # {})
        => result[p].status = "Conflict" /\ bookings = snap[p]

\* C5 amended: once postBooking has succeeded for u, every later postBooking of u adds
\* no Booking; it fails with Conflict when the room id names an existing Room (the same
\* room, another room, a full room) and with NotFound when no Room has that id.
C5_DuplicateRejected ==
    \A p \in Procs :
        (Done(p, "post") /\ req[p].userId \in created /\ BookingsOf(snap[p], req[p].userId) # {})
        => /\ result[p].status = IF req[p].roomId \in Rooms THEN "Conflict" ELSE "NotFound"
           /\ bookings = snap[p]

\* a user who booked asked for another room with a free place and was refused
C5_Witness ==
    \E p \in Procs :
        LET u == req[p].userId
            r == req[p].roomId
        IN  /\ Done(p, "post") /\ u \in created
            /\ r \in Rooms /\ Occupancy(snap[p], r) < capacity[r]
            /\ \E b \in snap[p] : b.userId = u /\ b.roomId # r
            /\ result[p].status = "Conflict"

\* C6: a successful postBooking(u, r) returns a stored Booking of u in r, and a
\* getBooking(u) that is the next request succeeds and returns a Booking of u in r.
C6_ReadAfterCreate ==
    \A p \in Procs :
        /\ (Done(p, "post") /\ result[p].status = "OK")
           => /\ result[p].booking.userId = req[p].userId
              /\ result[p].booking.roomId = req[p].roomId
              /\ result[p].booking \in bookings
        /\ (Done(p, "get") /\ prev # NoBooking /\ prev.userId = req[p].userId)
           => /\ result[p].status = "OK"
              /\ result[p].booking.userId = req[p].userId
              /\ result[p].booking.roomId = prev.roomId

\* the second user to book read the booking back
C6_Witness ==
    \E p \in Procs :
        /\ Done(p, "get") /\ prev # NoBooking /\ prev.userId = req[p].userId
        /\ prev.id > 1
        /\ result[p].status = "OK" /\ result[p].booking = prev

\* C7: putBooking(u, b, r) on an existing Booking b of another user fails with Conflict
\* and leaves the Booking table unchanged, for every room id r.
C7_Ownership ==
    \A p \in Procs :
        ( /\ Done(p, "put")
          /\ \E b \in snap[p] : b.id = req[p].bookingId /\ b.userId # req[p].userId )
        => result[p].status = "Conflict" /\ bookings = snap[p]

\* a user was refused moving somebody else's Booking into another room with a free place
C7_Witness ==
    \E p \in Procs :
        LET r == req[p].roomId IN
        /\ Done(p, "put") /\ r \in Rooms /\ Occupancy(snap[p], r) < capacity[r]
        /\ \E b \in snap[p] : b.id = req[p].bookingId /\ b.userId # req[p].userId /\ b.roomId # r
        /\ result[p].status = "Conflict"

\* C8: putBooking(u, b, r) of the owner of b with r the current room of b fails with
\* Conflict and leaves the Booking table unchanged, whatever the occupancy of r.
C8_NoOpGuard ==
    \A p \in Procs :
        ( /\ Done(p, "put")
          /\ \E b \in snap[p] : /\ b.id = req[p].bookingId /\ b.userId = req[p].userId
                                /\ b.roomId = req[p].roomId )
        => result[p].status = "Conflict" /\ bookings = snap[p]

\* an owner was refused the move into the own room although it has a free place
C8_Witness ==
    \E p \in Procs :
        LET r == req[p].roomId IN
        /\ Done(p, "put") /\ r \in Rooms /\ Occupancy(snap[p], r) < capacity[r]
        /\ \E b \in snap[p] : b.id = req[p].bookingId /\ b.userId = req[p].userId /\ b.roomId = r
        /\ result[p].status = "Conflict"

\* C9: a postBooking or putBooking that fails has written nothing and the Booking table
\* is as it was when the request started; one that succeeds has written exactly once
\* (one row inserted, or the roomId of one row changed) and a request that has written
\* performs no further persistence step.
C9_AtomicOutcome ==
    \A p \in Procs :
        /\ writes[p] > 0 => pc[p] = "done" /\ result[p].status = "OK"
        /\ (pc[p] = "done" /\ req[p].op \in {"post", "put"} /\ Failed(p))
           => writes[p] = 0 /\ bookings = snap[p]
        /\ (Done(p, "post") /\ result[p].status = "OK")
           => /\ writes[p] = 1
              /\ result[p].booking \notin snap[p]
              /\ bookings = snap[p] \cup {result[p].booking}
        /\ (Done(p, "put") /\ result[p].status = "OK")
           => /\ writes[p] = 1
              /\ \E b \in snap[p] :
                    /\ b.id = req[p].bookingId /\ b.roomId # req[p].roomId
                    /\ bookings = (snap[p] \ {b}) \cup {[b EXCEPT !.roomId = req[p].roomId]}

\* a move succeeded while another Booking was in the table
C9_Witness ==
    \E p \in Procs :
        /\ Done(p, "put") /\ result[p].status = "OK" /\ writes[p] = 1
        /\ Cardinality(snap[p]) > 1

\* C10: putBooking(u, b, Y) of the owner of b, b in room X, Y an existing room other than
\* X with a free place, succeeds; b keeps id and userId and is in Y, getBooking(u) finds
\* it in Y, occupancy(X) has dropped by one, occupancy(Y) has risen by one and the number
\* of Bookings is unchanged.
C10_RoomChange ==
    \A p \in Procs :
        \A b \in snap[p] :
            LET u == req[p].userId
                Y == req[p].roomId
                X == b.roomId
            IN  ( /\ Done(p, "put") /\ b.id = req[p].bookingId /\ b.userId = u
                  /\ Y \in Rooms /\ Y # X /\ Occupancy(snap[p], Y) < capacity[Y] )
                => /\ result[p].status = "OK"
                   /\ result[p].booking = [id |-> b.id, userId |-> u, roomId |-> Y]
                   /\ result[p].booking \in bookings
                   /\ \A g \in bookingRepository_getBooking(bookings, u) : g.roomId = Y
                   /\ Occupancy(bookings, X) = Occupancy(snap[p], X) - 1
                   /\ Occupancy(bookings, Y) = Occupancy(snap[p], Y) + 1
                   /\ Cardinality(bookings) = Cardinality(snap[p])

\* the only occupant of a room of capacity 1 moved into an empty room of capacity 1
C10_Witness ==
    \E p \in Procs :
        \E b \in snap[p] :
            /\ Done(p, "put") /\ result[p].status = "OK"
            /\ b.id = req[p].bookingId /\ b.userId = req[p].userId
            /\ capacity[b.roomId] = 1 /\ Occupancy(snap[p], b.roomId) = 1
            /\ req[p].roomId \in Rooms
            /\ capacity[req[p].roomId] = 1 /\ Occupancy(snap[p], req[p].roomId) = 0
            /\ Occupancy(bookings, b.roomId) = 0

\* C11: getBooking(u) returns a stored Booking whose userId is u when u has one and
\* fails with NotFound when u has none; the step changes no Booking, Room, Enrollment
\* or Ticket.
C11_GetBookingReadOnly ==
    [][\A p \in Procs :
        (pc[p] = "getBooking" /\ pc'[p] = "done")
        => /\ IF BookingsOf(bookings, req[p].userId) # {}
              THEN /\ result'[p].status = "OK"
                   /\ result'[p].booking \in bookings
                   /\ result'[p].booking.userId = req[p].userId
              ELSE result'[p] = [status |-> "NotFound", booking |-> NoBooking]
           /\ bookings' = bookings /\ nextId' = nextId
           /\ capacity' = capacity /\ enrollment' = enrollment /\ ticket' = ticket]_vars

\* a user read the own Booking while the table also held a Booking of somebody else
C11_Witness ==
    \E p \in Procs :
        /\ Done(p, "get") /\ result[p].status = "OK"
        /\ result[p].booking.userId = req[p].userId
        /\ \E b \in bookings : b.userId # req[p].userId

\* C12: the outcome of putBooking for the owner of the Booking is decided by the Booking
\* and the target room alone: an owner without Enrollment, without Ticket, or with a
\* RESERVED, remote or hotel-less ticket gets the result an eligible owner gets.
C12_UpdateIgnoresEligibility ==
    \A p \in Procs :
        \A b \in snap[p] :
            LET r == req[p].roomId IN
            (Done(p, "put") /\ b.id = req[p].bookingId /\ b.userId = req[p].userId)
            => result[p] =
                  IF r = b.roomId THEN [status |-> "Conflict", booking |-> NoBooking]
                  ELSE IF r \notin Rooms THEN [status |-> "NotFound", booking |-> NoBooking]
                  ELSE IF Occupancy(snap[p], r) >= capacity[r]
                       THEN [status |-> "Conflict", booking |-> NoBooking]
                  ELSE [status |-> "OK", booking |-> [b EXCEPT !.roomId = r]]

\* an owner who is not eligible to book moved the Booking
C12_Witness ==
    \E p \in Procs :
        /\ Done(p, "put") /\ result[p].status = "OK"
        /\ result[p].booking.userId = req[p].userId
        /\ ~Eligible(req[p].userId)

\* C13: under any interleaving a Booking is never removed and keeps its id and userId;
\* a Booking is added only by the create step of a postBooking that succeeds, and a
\* roomId changes only by the update step of a putBooking of that Booking that succeeds;
\* the number of Bookings never decreases.
C13_BookingLifecycle ==
    [][/\ \A b \in bookings :
            \E c \in bookings' :
                /\ c.id = b.id /\ c.userId = b.userId
                /\ c.roomId # b.roomId
                   => \E p \in Procs :
                        /\ req[p].op = "put" /\ pc[p] = "updateBooking" /\ pc'[p] = "done"
                        /\ req[p].bookingId = b.id /\ c.roomId = req[p].roomId
                        /\ result'[p] = [status |-> "OK", booking |-> c]
       /\ \A c \in bookings' :
            (\A b \in bookings : b.id # c.id)
            => \E p \in Procs :
                    /\ req[p].op = "post" /\ pc[p] = "postBooking" /\ pc'[p] = "done"
                    /\ result'[p] = [status |-> "OK", booking |-> c]
       /\ Cardinality(bookings') >= Cardinality(bookings)]_vars

\* a Booking was moved while another request, started before the move, was in flight
C13_Witness ==
    \E p \in Procs, q \in Procs :
        /\ Done(p, "put") /\ result[p].status = "OK"
        /\ q # p /\ pc[q] \notin {"idle", "done"}
        /\ snap[q] # bookings /\ Cardinality(snap[q]) = Cardinality(bookings)

\* C14: postBooking checks, in this order, that the room exists (else NotFound), that it
\* has a free place, that the user is eligible and that the user has no Booking (else
\* Conflict), and stops at the first failure: a room id without Room gives NotFound
\* even for an ineligible or already booked user, and a full room gives Conflict at the
\* count, before enrollment, ticket or the user's Booking is read.
C14_CreatePrecedence ==
    /\ [](\A p \in Procs :
            LET u == req[p].userId
                r == req[p].roomId
            IN  Done(p, "post")
                => result[p].status =
                      IF r \notin Rooms THEN "NotFound"
                      ELSE IF Occupancy(snap[p], r) >= capacity[r] THEN "Conflict"
                      ELSE IF ~Eligible(u) THEN "Conflict"
                      ELSE IF BookingsOf(snap[p], u) # {} THEN "Conflict"
                      ELSE "OK")
    /\ [][\A p \in Procs :
            LET r == req[p].roomId IN
            /\ (req[p].op = "post" /\ pc[p] = "findRoom" /\ pc'[p] # pc[p])
               => IF r \notin Rooms
                  THEN pc'[p] = "done" /\ result'[p].status = "NotFound"
                  ELSE pc'[p] = "countBookingRoom"
            /\ (req[p].op = "post" /\ pc[p] = "countBookingRoom" /\ pc'[p] # pc[p])
               => IF Occupancy(bookings, r) >= capacity[r]
                  THEN pc'[p] = "done" /\ result'[p].status = "Conflict"
                  ELSE pc'[p] = "validateEnrollment"
            /\ (pc[p] = "validateEnrollment" /\ pc'[p] # pc[p])
               => pc'[p] \in {"done", "validTicket"}
            /\ (pc[p] = "validTicket" /\ pc'[p] # pc[p])
               => pc'[p] \in {"done", "userBooking"}
            /\ (pc[p] = "userBooking" /\ pc'[p] # pc[p])
               => pc'[p] \in {"done", "postBooking"}]_vars

\* a user who has a Booking asked for a room id without Room and got NotFound
C14_Witness ==
    \E p \in Procs :
        /\ Done(p, "post") /\ req[p].roomId \notin Rooms
        /\ BookingsOf(snap[p], req[p].userId) # {}
        /\ result[p].status = "NotFound"

\* C15: putBooking(u, id, r) answers (1) NotFound when no Booking has that id, whoever
\* calls and whatever r; (2) else Conflict when u is not the owner or r is the Booking's
\* room, whether or not r exists or is full; (3) else NotFound when no Room r exists;
\* (4) else Conflict when r is full; (5) else it succeeds.
C15_UpdatePrecedence ==
    \A p \in Procs :
        LET u == req[p].userId
            r == req[p].roomId
            found == {b \in snap[p] : b.id = req[p].bookingId}
        IN  Done(p, "put")
            => result[p].status =
                  IF found = {} THEN "NotFound"
                  ELSE IF \E b \in found : b.userId # u \/ b.roomId = r THEN "Conflict"
                  ELSE IF r \notin Rooms THEN "NotFound"
                  ELSE IF Occupancy(snap[p], r) >= capacity[r] THEN "Conflict"
                  ELSE "OK"

\* somebody else's Booking was asked to move to a room id without Room: Conflict
C15_Witness ==
    \E p \in Procs :
        /\ Done(p, "put") /\ req[p].roomId \notin Rooms
        /\ \E b \in snap[p] : b.id = req[p].bookingId /\ b.userId # req[p].userId
        /\ result[p].status = "Conflict"

\* C16: the create step of a successful postBooking(u, r) adds exactly one Booking, of
\* user u in room r with an id no Booking had; every other Booking and every Room,
\* Enrollment and Ticket is unchanged, so occupancy(r) rises by one and the occupancy of
\* every other room stays.
C16_CreateEffect ==
    [][\A p \in Procs :
        (req[p].op = "post" /\ pc[p] = "postBooking" /\ pc'[p] = "done")
        => LET u == req[p].userId
               r == req[p].roomId
               nb == result'[p].booking
           IN  /\ result'[p].status = "OK"
               /\ nb.userId = u /\ nb.roomId = r
               /\ \A b \in bookings : b.id # nb.id
               /\ bookings' = bookings \cup {nb}
               /\ Cardinality(bookings') = Cardinality(bookings) + 1
               /\ capacity' = capacity /\ enrollment' = enrollment /\ ticket' = ticket
               /\ \A x \in Rooms :
                    Occupancy(bookings', x) = Occupancy(bookings, x) + (IF x = r THEN 1 ELSE 0)]_vars

\* a second Booking was created, in a room other than that of the first
C16_Witness ==
    \E p \in Procs :
        /\ Done(p, "post") /\ result[p].status = "OK"
        /\ result[p].booking \in bookings
        /\ \E b \in snap[p] : b.roomId # req[p].roomId /\ b \in bookings

\* C17: when requests run one at a time from a store in which no room is over capacity,
\* in every reachable state the number of Bookings of each room is at most its capacity.
C17_CapacityInvariant ==
    \A r \in Rooms : Occupancy(bookings, r) <= capacity[r]

\* an owner was refused the move into a room that is exactly full
C17_Witness ==
    \E p \in Procs :
        LET r == req[p].roomId IN
        /\ Done(p, "put") /\ r \in Rooms /\ result[p].status = "Conflict"
        /\ \E b \in bookings : b.id = req[p].bookingId /\ b.userId = req[p].userId /\ b.roomId # r
        /\ Occupancy(bookings, r) = capacity[r]

\* C18: when postBooking and putBooking requests of different users interleave at the
\* granularity of persistence calls, no room ever holds more Bookings than its capacity
\* (stated for the stores in which the Bookings are of different users).
C18_CapacityInvariantInterleaved ==
    (\A b \in bookings, c \in bookings : b.userId = c.userId => b = c)
    => \A r \in DOMAIN capacity : Cardinality({b \in bookings : b.roomId = r}) <= capacity[r]

\* C19: under any interleaving, the update step of putBooking(u, id, r) is applied to a
\* Booking that exists and belongs to u at that moment, and no step changes the roomId
\* of a Booking of a user other than the caller of the request taking the step.
C19_OwnerAtWrite ==
    [][\A p \in Procs :
        (pc[p] = "updateBooking" /\ pc'[p] = "done")
        => /\ \E b \in bookings : b.id = req[p].bookingId /\ b.userId = req[p].userId
           /\ \A b \in bookings : \A c \in bookings' :
                (c.id = b.id /\ c.roomId # b.roomId) => b.userId = req[p].userId]_vars

\* a Booking was moved by its owner while a request of another user was in flight
C19_Witness ==
    \E p \in Procs, q \in Procs :
        /\ Done(p, "put") /\ result[p].status = "OK" /\ result[p].booking \in bookings
        /\ q # p /\ pc[q] \notin {"idle", "done"} /\ req[q].userId # req[p].userId
        /\ req[q].op = "put" /\ req[q].bookingId = req[p].bookingId

\* C20: under any interleaving, the update step of every putBooking changes the stored
\* roomId: just before the write the Booking's roomId differs from the requested one.
C20_UpdateChangesRoom ==
    [][\A p \in Procs :
        (pc[p] = "updateBooking" /\ pc'[p] = "done")
        => \A b \in bookings : b.id = req[p].bookingId => b.roomId # req[p].roomId]_vars

=============================================================================
